---- MODULE Spec2Model ----
(***************************************************************************)
(* path-cleaner: the collision-safe classify-and-relocate engine.          *)
(*                                                                         *)
(* File names are sequences of one-character strings, so that the regular  *)
(* expressions of futility.py and pathcleaner.py are modelled by what they *)
(* match, character by character.                                          *)
(***************************************************************************)
EXTENDS Naturals, Integers, Sequences, FiniteSets, TLC

(***************************************************************************)
(* Bounds of the model.                                                    *)
(***************************************************************************)
\* longest filename drawn, character by character, for get_filename_extension
MaxNameLen == 4
\* largest collision suffix whose candidate name may pre-exist in a target folder
MaxSuffix == 3
\* most regular files a watched root holds at the start
MaxRootFiles == 2
\* the wall clock runs from 0 to MaxClock seconds
MaxClock == 1
\* most changes the user makes to the watched roots while the program runs
MaxEnv == 2
\* most events an Observer's queue holds; further ones merge into the last
MaxQueue == 2
\* calls of a function made in succession with the same arguments
MaxCalls == 2

(***************************************************************************)
(* Characters.                                                             *)
(***************************************************************************)
Digits == {"0", "1", "2", "3", "4", "5", "6", "7", "8", "9"}

Letters ==
  {"a", "b", "c", "d", "e", "f", "g", "h", "i", "j", "k", "l", "m",
   "n", "o", "p", "q", "r", "s", "t", "u", "v", "w", "x", "y", "z",
   "A", "B", "C", "D", "E", "F", "G", "H", "I", "J", "K", "L", "M",
   "N", "O", "P", "Q", "R", "S", "T", "U", "V", "W", "X", "Y", "Z"}

\* \w of Python's re: letters, digits and the underscore
WordChars == Letters \cup Digits \cup {"_"}

\* \s of Python's re, as far as the names of the model go
SpaceChars == {" "}

\* the negated character set [^(_\d+)$] of check_filename excludes these
TrimClass == {"(", "_", "+", ")", "$"} \cup Digits

\* Python's None
None == <<"None">>

\* a formatting that ignores the counter
AlwaysOne(n) == <<"1">>

\* str(n) for a natural number n
RECURSIVE IntToStr(_)
IntToStr(n) ==
  LET d == <<"0", "1", "2", "3", "4", "5", "6", "7", "8", "9">>[(n % 10) + 1]
  IN  IF n < 10 THEN <<d>> ELSE IntToStr(n \div 10) \o <<d>>

(***************************************************************************)
(* futility.get_filename_extension                                         *)
(***************************************************************************)
\* the end of the run of \w characters that holds position j
RECURSIVE WordRunEnd(_, _)
WordRunEnd(s, j) ==
  IF j < Len(s) /\ s[j + 1] \in WordChars THEN WordRunEnd(s, j + 1) ELSE j

\* re.findall(r'(\.[\w]+)', s), scanning from position k: the non-overlapping
\* matches, left to right
RECURSIVE FindAllExt(_, _)
FindAllExt(s, k) ==
  IF k > Len(s) THEN <<>>
  ELSE IF s[k] = "." /\ k < Len(s) /\ s[k + 1] \in WordChars
       THEN LET j == WordRunEnd(s, k + 1)
            IN  <<SubSeq(s, k, j)>> \o FindAllExt(s, j + 1)
       ELSE FindAllExt(s, k + 1)

FirstMatchExtension(name) ==
  LET m == FindAllExt(name, 1) IN IF m # <<>> THEN m[1] ELSE None

get_filename_extension(name) ==
  LET m == FindAllExt(name, 1) IN IF m # <<>> THEN m[Len(m)] ELSE None

(***************************************************************************)
(* futility.check_filename                                                 *)
(***************************************************************************)
\* A folder is [exists |-> BOOLEAN, entries |-> function from names to nodes];
\* a node is [kind |-> "file", id |-> n] or [kind |-> "dir"].
NoFolder == [exists |-> FALSE, entries |-> <<>>]

IsFileOrDirectory(folder, name) ==
  folder.exists /\ name \in DOMAIN folder.entries

\* os.path.isfile(f'{target_folder}/{file}')
IsFile(folder, name) ==
  folder.exists /\ name \in DOMAIN folder.entries
                /\ folder.entries[name].kind = "file"

DotPositions(s) == {k \in 1..Len(s) : s[k] = "."}

Min(S) == CHOOSE x \in S : \A y \in S : x <= y
Max(S) == CHOOSE x \in S : \A y \in S : x >= y

\* file.split('.', 1): the parts before and after the first dot
SplitFirstDot(s) ==
  IF DotPositions(s) = {} THEN <<s>>
  ELSE LET d == Min(DotPositions(s))
       IN  <<SubSeq(s, 1, d - 1), SubSeq(s, d + 1, Len(s))>>

NoTrim(fh) == fh

\* re.search(r'.*[^(_\d+)$]', fh): the longest prefix of fh that ends in a
\* character outside the set, or None when fh has no such character
FhTrimmed(fh) ==
  LET keep == {k \in 1..Len(fh) : fh[k] \notin TrimClass}
  IN  IF keep = {} THEN None ELSE SubSeq(fh, 1, Max(keep))

ReturnUnchecked(st, folder) == [st EXCEPT !.status = "returned"]

\* One turn of the `while True` loop, on st = [file, i, status]: status is
\* "loop" while the loop runs, "returned" after the break, or the exception
\* that left the function.
CheckStep(st, folder) ==
  IF ~IsFile(folder, st.file) THEN [st EXCEPT !.status = "returned"]
  ELSE LET parts == SplitFirstDot(st.file)
           n     == st.i + 1
       IN  IF Len(parts) < 2
           THEN [st EXCEPT !.i = n, !.status = "IndexError"]
           ELSE IF FhTrimmed(parts[1]) = None
                THEN [st EXCEPT !.i = n, !.status = "AttributeError"]
                ELSE [file   |-> FhTrimmed(parts[1]) \o <<"_">> \o IntToStr(n)
                                   \o <<".">> \o parts[2],
                      i      |-> n,
                      status |-> "loop"]

CheckStart(name) == [file |-> name, i |-> 0, status |-> "loop"]

\* check_filename run to its end against a folder nobody else changes
RECURSIVE CheckRun(_, _)
CheckRun(st, folder) ==
  IF st.status # "loop" THEN st ELSE CheckRun(CheckStep(st, folder), folder)

check_filename(file_to_check, target_folder) ==
  CheckRun(CheckStart(file_to_check), target_folder)

(***************************************************************************)
(* Names the model draws its inputs from.                                  *)
(***************************************************************************)
\* every sequence over S of length n, and of length at most n
RECURSIVE SeqsOfLen(_, _)
SeqsOfLen(S, n) ==
  IF n = 0 THEN {<<>>}
  ELSE {Append(s, c) : s \in SeqsOfLen(S, n - 1), c \in S}

RECURSIVE SeqsUpTo(_, _)
SeqsUpTo(S, n) ==
  IF n = 0 THEN {<<>>} ELSE SeqsOfLen(S, n) \cup SeqsUpTo(S, n - 1)

ExtAlphabet == {"a", "1", "_", ".", " "}

ArchiveTarGz == <<"a", "r", "c", "h", "i", "v", "e", ".", "t", "a", "r", ".", "g", "z">>

\* the filenames handed to get_filename_extension
ExtInputs == SeqsUpTo(ExtAlphabet, MaxNameLen) \cup {ArchiveTarGz}

APng == <<"a", ".", "p", "n", "g">>
BTxt == <<"b", ".", "t", "x", "t">>
CTmp == <<"c", ".", "t", "m", "p">>
DUnknown == <<"d", ".", "u", "n", "k", "n", "o", "w", "n">>
Report2Txt == <<"r", "e", "p", "o", "r", "t", "_", "2", ".", "t", "x", "t">>
Report992Txt == <<"r", "e", "p", "o", "r", "t", "9", "9", "_", "2", ".", "t", "x", "t">>
Report99Txt == <<"r", "e", "p", "o", "r", "t", "9", "9", ".", "t", "x", "t">>
Img2023Png == <<"I", "M", "G", "2", "0", "2", "3", ".", "p", "n", "g">>
Y2023Png == <<"2", "0", "2", "3", ".", "p", "n", "g">>
Under1Txt == <<"_", "1", ".", "t", "x", "t">>
DotPng == <<".", "p", "n", "g">>
Readme == <<"R", "E", "A", "D", "M", "E">>

\* the names handed to check_filename as file_to_check
DesiredNames ==
  {APng, Report2Txt, Report992Txt, Report99Txt, Img2023Png, Y2023Png,
   Under1Txt, DotPng, Readme, ArchiveTarGz}

\* The stem of a name with one trailing _<digits> group removed: the base the
\* suffix rule is described with (strip only a trailing _<digits> group).
CanonicalBase(fh) ==
  LET us == {k \in 1..Len(fh) :
               /\ fh[k] = "_"
               /\ k < Len(fh)
               /\ \A j \in (k + 1)..Len(fh) : fh[j] \in Digits}
  IN  IF us = {} THEN fh ELSE SubSeq(fh, 1, Max(us) - 1)

\* base_<n>.ext for a name with a dot; the name's stem ends at its first dot
Suffixed(base, n, ext) == base \o <<"_">> \o IntToStr(n) \o <<".">> \o ext

\* the names around a desired name that may already exist in a target folder:
\* the name itself and its suffixed forms, on the trimmed stem and on the stem
\* with one trailing _<digits> group removed
Family(name) ==
  LET parts == SplitFirstDot(name)
  IN  {name} \cup
      (IF Len(parts) < 2 THEN {}
       ELSE LET bases == {CanonicalBase(parts[1])} \cup
                         (IF FhTrimmed(parts[1]) = None THEN {}
                          ELSE {FhTrimmed(parts[1])})
            IN  {Suffixed(b, n, parts[2]) : b \in bases, n \in 1..MaxSuffix})

(***************************************************************************)
(* The filesystem under a watched root.                                    *)
(***************************************************************************)
FileNode(id) == [kind |-> "file", id |-> id, entries |-> <<>>]
DirNode(entries) == [kind |-> "dir", id |-> 0, entries |-> entries]

\* a function without / with one more key
Without(f, k) == [x \in DOMAIN f \ {k} |-> f[x]]
With(f, k, v) == [x \in DOMAIN f \cup {k} |-> IF x = k THEN v ELSE f[x]]

\* the folder {root}/{sub} as check_filename's existence checks see it
SubFolder(rt, sub) ==
  IF sub \in DOMAIN rt /\ rt[sub].kind = "dir"
  THEN [exists |-> TRUE, entries |-> rt[sub].entries]
  ELSE NoFolder

\* a test that any entry of the root passes, a directory too
IsRootEntry(rt, name) == name \in DOMAIN rt

\* os.path.isfile(f'{root}/{file}')
IsRootFile(rt, name) == name \in DOMAIN rt /\ rt[name].kind = "file"

\* os.path.isdir(f'{root}/{subdir}')
IsRootDir(rt, name) == name \in DOMAIN rt /\ rt[name].kind = "dir"

\* os.rename(f'{root}/{src}', f'{root}/{sub}/{name}') of a regular file, with
\* POSIX rename semantics: an existing regular file at the destination is
\* replaced, an existing directory there makes it fail.  (Permissions are not
\* part of the model's filesystem.)
os_rename(rt, src, sub, name) ==
  IF src \notin DOMAIN rt \/ sub \notin DOMAIN rt
  THEN [err |-> "FileNotFoundError", tree |-> rt]
  ELSE IF rt[sub].kind # "dir"
  THEN [err |-> "NotADirectoryError", tree |-> rt]
  ELSE IF name \in DOMAIN rt[sub].entries /\ rt[sub].entries[name].kind = "dir"
  THEN [err |-> "IsADirectoryError", tree |-> rt]
  ELSE [err  |-> "",
        tree |-> [x \in DOMAIN rt \ {src} |->
                    IF x = sub
                    THEN DirNode(With(rt[sub].entries, name, rt[src]))
                    ELSE rt[x]]]

\* os.mkdir for every name, without the os.path.isdir test before it
RECURSIVE MakeUnchecked(_, _, _)
MakeUnchecked(rt, subdirs, k) ==
  IF k > Len(subdirs) THEN [err |-> "", tree |-> rt]
  ELSE IF subdirs[k] \in DOMAIN rt
  THEN [err |-> "FileExistsError", tree |-> rt]
  ELSE MakeUnchecked(With(rt, subdirs[k], DirNode(<<>>)), subdirs, k + 1)

\* make_subdirectories(root, subdirs) with subdirs[k..] still to do: os.mkdir
\* raises FileExistsError when the name is taken by something that is no
\* directory; the directories made before that stay.
RECURSIVE MakeFrom(_, _, _)
MakeFrom(rt, subdirs, k) ==
  IF k > Len(subdirs) THEN [err |-> "", tree |-> rt]
  ELSE IF IsRootDir(rt, subdirs[k]) THEN MakeFrom(rt, subdirs, k + 1)
  ELSE IF subdirs[k] \in DOMAIN rt
  THEN [err |-> "FileExistsError", tree |-> rt]
  ELSE MakeFrom(With(rt, subdirs[k], DirNode(<<>>)), subdirs, k + 1)

make_subdirectories(rt, subdirs) == MakeFrom(rt, subdirs, 1)

\* the regular files under a root, as <<subfolder or <<>>, name, id>>
FilesUnder(rt) ==
  {<<(<<>>), n, rt[n].id>> : n \in {x \in DOMAIN rt : rt[x].kind = "file"}}
  \cup UNION {{<<d, n, rt[d].entries[n].id>> :
                 n \in {x \in DOMAIN rt[d].entries :
                          rt[d].entries[x].kind = "file"}} :
              d \in {x \in DOMAIN rt : rt[x].kind = "dir"}}

\* the files inside the subfolders, and the identities of all files
FilesInSubfolders(rt) == {e \in FilesUnder(rt) : e[1] # <<>>}
FileIds(rt) == {e[3] : e \in FilesUnder(rt)}

(***************************************************************************)
(* The regular expression of sort_screenshots, matched on position sets:   *)
(* a position is the index of the next character to read.                  *)
(***************************************************************************)
\* the positions after one character of class C read from a position of P
ReadClass(s, P, C) == {p + 1 : p \in {q \in P : q <= Len(s) /\ s[q] \in C}}

\* the positions after the literal lit read from a position of P
ReadLit(s, P, lit) ==
  {p + Len(lit) : p \in {q \in P : /\ q + Len(lit) - 1 <= Len(s)
                                   /\ SubSeq(s, q, q + Len(lit) - 1) = lit}}

\* C* and C+ from the positions of P
RECURSIVE ReadStar(_, _, _)
ReadStar(s, P, C) ==
  LET Q == P \cup ReadClass(s, P, C)
  IN  IF Q = P THEN P ELSE ReadStar(s, Q, C)

ReadPlus(s, P, C) == ReadStar(s, ReadClass(s, P, C), C)

\* (\d+-*)+
ReadDateGroup(s, P) == ReadStar(s, ReadPlus(s, P, Digits), {"-"})

RECURSIVE ReadDateGroups(_, _)
ReadDateGroups(s, P) ==
  LET Q == P \cup ReadDateGroup(s, P)
  IN  IF Q = P THEN P ELSE ReadDateGroups(s, Q)

\* ((\d+\.){2}\d+)
ReadTime(s, P) ==
  LET a == ReadLit(s, ReadPlus(s, P, Digits), <<".">>)
      b == ReadLit(s, ReadPlus(s, a, Digits), <<".">>)
  IN  ReadPlus(s, b, Digits)

\* (\s\(\d\))*
ReadMarker(s, P) ==
  ReadLit(s, ReadClass(s, ReadLit(s, ReadClass(s, P, SpaceChars), <<"(">>),
                       Digits), <<")">>)

RECURSIVE ReadMarkers(_, _)
ReadMarkers(s, P) ==
  LET Q == P \cup ReadMarker(s, P)
  IN  IF Q = P THEN P ELSE ReadMarkers(s, Q)

\* apple_screengrab_filename.search(file) is not None
apple_screengrab_filename(s) ==
  LET p0 == 1..(Len(s) + 1)
      p1 == ReadLit(s, p0, <<"S", "c", "r", "e", "e", "n", "s", "h", "o", "t">>)
            \cup ReadLit(s, ReadClass(s, ReadLit(s, p0, <<"S", "c", "r", "e", "e", "n">>), SpaceChars),
                         <<"R", "e", "c", "o", "r", "d", "i", "n", "g">>)
      p2 == ReadClass(s, p1, SpaceChars)
      p3 == ReadDateGroups(s, ReadDateGroup(s, p2))
      p4 == ReadClass(s, ReadLit(s, ReadClass(s, p3, SpaceChars), <<"a", "t">>),
                      SpaceChars)
      p5 == ReadMarkers(s, ReadTime(s, p4))
      p6 == ReadLit(s, p5, <<".", "m", "o", "v">>) \cup ReadLit(s, p5, <<".", "p", "n", "g">>)
  IN  p6 # {}

(***************************************************************************)
(* datetime.now().strftime("%d-%m-%Y_%H-%M-%S"): the clock counts the      *)
(* seconds since 01-01-2023 10:30:00.                                      *)
(***************************************************************************)
TwoDigits(n) == IF n < 10 THEN <<"0">> \o IntToStr(n) ELSE IntToStr(n)

strftime(now) ==
  <<"0", "1", "-", "0", "1", "-", "2", "0", "2", "3", "_", "1", "0", "-">> \o TwoDigits(30 + (now \div 60)) \o <<"-">>
    \o TwoDigits(now % 60)

(***************************************************************************)
(* Configuration: the extension table (file_extensions.json) and main()'s  *)
(* config_args.                                                            *)
(***************************************************************************)
Images == <<"I", "m", "a", "g", "e", "s">>
Docs == <<"D", "o", "c", "s">>
Other == <<"O", "t", "h", "e", "r">>
Screenshots == <<"S", "c", "r", "e", "e", "n", "s", "h", "o", "t", "s">>

\* json.load of file_extensions.json: an input of the program, here the table
\* {".png": "Images", ".txt": "Docs", ".tmp": "Other"}
extensions ==
  [e \in {<<".", "p", "n", "g">>, <<".", "t", "x", "t">>, <<".", "t", "m", "p">>} |->
     IF e = <<".", "p", "n", "g">> THEN Images ELSE IF e = <<".", "t", "x", "t">> THEN Docs ELSE Other]

Watchers == {"Downloads", "Screenshots"}

\* the two folders of config_args, f'{Path.home()}/Downloads' and .../Desktop
Downloads == "/Users/user/Downloads"
Desktop == "/Users/user/Desktop"

\* one root for both watchers: what config_args does not do
SharedRoot(w) == Downloads

\* config_args[w]['Root']
Root(w) == IF w = "Downloads" THEN Downloads ELSE Desktop

RootDirs == {Downloads, Desktop}

\* config_args[w]['Subfolders'], as the set of names make_subdirectories gets
Subfolders(w) ==
  IF w = "Downloads"
  THEN {extensions[e] : e \in DOMAIN extensions} \ {Other}
  ELSE {Screenshots}

\* the orders in which a list built from a set may come
Orders(S) ==
  {q \in [1..Cardinality(S) -> S] :
     \A a, b \in 1..Cardinality(S) : a # b => q[a] # q[b]}

(***************************************************************************)
(* State.                                                                  *)
(***************************************************************************)
VARIABLES
  filename,        \* get_filename_extension: its argument
  file_extension,  \* get_filename_extension: what it returned
  ext_pc,          \* "call" before, "returned" after get_filename_extension
  file_to_check,   \* check_filename: its first argument
  target_folder,   \* check_filename: the folder its second argument names
  cf,              \* check_filename: [file, i, status] of its loop
  earlier,         \* check_filename: how the calls before this one ended
  mk,              \* make_subdirectories: its arguments, calls and results
  tree,            \* the filesystem under each watched root
  cwdDirs,         \* the names that are directories in the process's cwd
  clock,           \* seconds on the wall clock
  th,              \* each thread's position and locals
  observer,        \* each watcher's Observer: "new", "started" or "dead"
  queue,           \* each Observer's pending on_modified events
  envLeft          \* changes the user may still make to the roots

fnVars == <<filename, file_extension, ext_pc, file_to_check, target_folder, cf,
            earlier, mk>>
sysVars == <<tree, cwdDirs, clock, th, observer, queue, envLeft>>
vars == <<filename, file_extension, ext_pc, file_to_check, target_folder, cf,
          earlier, mk, tree, cwdDirs, clock, th, observer, queue, envLeft>>

\* the main thread, and the thread of each watcher's Observer
Threads == {"main"} \cup Watchers

\* A thread's frame.  pc: where it stands; w: the watcher it serves; listing,
\* k: os.listdir(root) and the index of the current file; src, dest, chk: the
\* file being moved, its subfolder and check_filename's loop state; exc: the
\* exception that ended the thread.  tree0, env0, stamps and subsOK record the
\* root as listed, the user's budget then, the clock readings taken, and
\* whether the required subfolders existed when the cleanup function started.
Frame(pc, w) ==
  [pc |-> pc, w |-> w, listing |-> <<>>, k |-> 0, src |-> <<>>, dest |-> <<>>,
   chk |-> CheckStart(<<>>), exc |-> "", tree0 |-> <<>>, env0 |-> 0,
   stamps |-> <<>>, subsOK |-> TRUE]

PassPcs == {"list", "next", "check", "rename"}

\* the process is gone once the main thread died of an exception
Alive == th["main"].pc # "raised"

(***************************************************************************)
(* The cleanup functions, one loop turn at a time.                         *)
(***************************************************************************)
NoTarget == [dest |-> <<>>, name |-> <<>>]

\* sort_by_filetype, lines 123-135: where a listed file goes
ClassifyByFiletype(rt, file) ==
  IF ~IsRootFile(rt, file) THEN NoTarget
  ELSE LET e == get_filename_extension(file)
       IN  IF e \notin DOMAIN extensions THEN NoTarget
           ELSE IF extensions[e] = Other THEN NoTarget
           ELSE [dest |-> extensions[e], name |-> file]

\* sort_screenshots, lines 161-171: where a listed file goes
ClassifyScreenshot(rt, file, now) ==
  IF ~(IsRootFile(rt, file) /\ apple_screengrab_filename(file)) THEN NoTarget
  ELSE LET e == get_filename_extension(file)
       IN  [dest |-> Screenshots,
            name |-> <<"S", "c", "r", "e", "e", "n", "g", "r", "a", "b", "_">> \o strftime(now) \o <<"_", "c", "a", "p", "t", "u", "r", "e", "d">>
                       \o (IF e = None THEN <<"N", "o", "n", "e">> ELSE e)]

\* config_args[w]['Cleanup Function'] applied to one listed file
Classify(w, rt, file, now) ==
  IF w = "Downloads" THEN ClassifyByFiletype(rt, file)
  ELSE ClassifyScreenshot(rt, file, now)

\* the frame of a thread that an exception e left
Raise(f, e) == [f EXCEPT !.pc = "raised", !.exc = e]

\* One step of a pass on frame f and root tree rt at clock reading now:
\* the loop head, one turn of check_filename's loop, or os.rename.
PassTurn(f, rt, now) ==
  IF f.pc = "next"
  THEN IF f.k > Len(f.listing)
       THEN [f |-> [f EXCEPT !.pc = "done"], rt |-> rt]
       ELSE LET file == f.listing[f.k]
                tg   == Classify(f.w, rt, file, now)
                read == f.w = "Screenshots" /\ tg # NoTarget
            IN  IF tg = NoTarget
                THEN [f |-> [f EXCEPT !.k = @ + 1], rt |-> rt]
                ELSE [f  |-> [f EXCEPT !.pc = "check", !.src = file,
                                       !.dest = tg.dest,
                                       !.chk = CheckStart(tg.name),
                                       !.stamps = IF read THEN Append(@, now)
                                                  ELSE @],
                      rt |-> rt]
  ELSE IF f.pc = "check"
  THEN LET st == CheckStep(f.chk, SubFolder(rt, f.dest))
       IN  IF st.status = "loop"
           THEN [f |-> [f EXCEPT !.chk = st], rt |-> rt]
           ELSE IF st.status = "returned"
           THEN [f |-> [f EXCEPT !.chk = st, !.pc = "rename"], rt |-> rt]
           ELSE [f |-> Raise([f EXCEPT !.chk = st], st.status), rt |-> rt]
  ELSE LET r == os_rename(rt, f.src, f.dest, f.chk.file)
       IN  IF r.err # ""
           THEN [f |-> Raise(f, r.err), rt |-> rt]
           ELSE [f |-> [f EXCEPT !.pc = "next", !.k = @ + 1], rt |-> r.tree]

\* a pass run to its end on its own, from frame f and root tree rt, reading
\* the clock values of rec in turn
RECURSIVE IsolatedPass(_, _, _)
IsolatedPass(f, rt, rec) ==
  IF f.pc \notin {"next", "check", "rename"} THEN [f |-> f, rt |-> rt]
  ELSE LET now == IF Len(f.stamps) < Len(rec)
                  THEN rec[Len(f.stamps) + 1] ELSE 0
           n   == PassTurn(f, rt, now)
       IN  IsolatedPass(n.f, n.rt, rec)

(***************************************************************************)
(* Initial filesystems.                                                    *)
(***************************************************************************)
A1Png == <<"a", "_", "1", ".", "p", "n", "g">>
ShotA == <<"S", "c", "r", "e", "e", "n", "s", "h", "o", "t", " ", "2", "0", "2", "3", "-", "0", "1", "-", "0", "1", " ", "a", "t", " ", "1", "0", ".", "3", "0", ".", "0", "0", ".", "p", "n", "g">>
ShotB == <<"S", "c", "r", "e", "e", "n", " ", "R", "e", "c", "o", "r", "d", "i", "n", "g", " ", "1", "-", "2", " ", "a", "t", " ", "1", ".", "2", ".", "3", " ", "(", "2", ")", ".", "m", "o", "v">>
ShotBak == <<"S", "c", "r", "e", "e", "n", "s", "h", "o", "t", " ", "1", " ", "a", "t", " ", "1", ".", "2", ".", "3", ".", "p", "n", "g", ".", "b", "a", "k">>
ShotJpg == <<"S", "c", "r", "e", "e", "n", "s", "h", "o", "t", " ", "1", " ", "a", "t", " ", "1", ".", "2", ".", "3", ".", "j", "p", "g">>
NotesTxt == <<"n", "o", "t", "e", "s", ".", "t", "x", "t">>
Grab0Png == <<"S", "c", "r", "e", "e", "n", "g", "r", "a", "b", "_", "0", "1", "-", "0", "1", "-", "2", "0", "2", "3", "_", "1", "0", "-", "3", "0", "-", "0", "0", "_", "c", "a", "p", "t", "u", "r", "e", "d", ".", "p", "n", "g">>
Grab01Png == <<"S", "c", "r", "e", "e", "n", "g", "r", "a", "b", "_", "0", "1", "-", "0", "1", "-", "2", "0", "2", "3", "_", "1", "0", "-", "3", "0", "-", "0", "0", "_", "c", "a", "p", "t", "u", "r", "e", "d", "_", "1", ".", "p", "n", "g">>

\* the names a root may hold at the start, and the sequence that numbers them
DownloadsPool == {APng, A1Png, BTxt, CTmp, DUnknown, Y2023Png, Readme}
DesktopPool == {ShotA, ShotB, ShotBak, ShotJpg, NotesTxt}
AllNames ==
  <<APng, A1Png, BTxt, CTmp, DUnknown, Y2023Png, Readme, ShotA, ShotB,
    ShotBak, ShotJpg, NotesTxt, Grab0Png, Grab01Png, Images, Docs,
    Screenshots>>
NameNo(n) == CHOOSE k \in 1..Len(AllNames) : AllNames[k] = n

\* identities: 100+ for files first seen in a root, 200+ for files first seen
\* in a subfolder, 300+ for files the user creates later
RootFiles(F) == [n \in F |-> FileNode(100 + NameNo(n))]
OldFiles(F) == [n \in F |-> FileNode(200 + NameNo(n))]
OldDirs(D) == [n \in D |-> DirNode(<<>>)]
Merge(f, g) == [x \in DOMAIN f \cup DOMAIN g |->
                  IF x \in DOMAIN f THEN f[x] ELSE g[x]]

SmallSubsets(S, n) == {F \in SUBSET S : Cardinality(F) <= n}

\* what Downloads/Images may hold at the start
ImagesAtStart ==
  {OldFiles({}), OldFiles({APng}), OldFiles({APng, A1Png}),
   Merge(OldFiles({APng}), OldDirs({A1Png})), OldDirs({APng}),
   OldFiles({Y2023Png})}

\* what Desktop/Screenshots may hold at the start
ScreenshotsAtStart ==
  {OldFiles({}), OldFiles({Grab0Png}), OldFiles({Grab0Png, Grab01Png}),
   OldDirs({Grab0Png})}

\* a root with the regular files F and the subfolders of subs: a function
\* from the subfolders' names to what each holds
RootWith(F, subs) ==
  Merge(RootFiles(F), [n \in DOMAIN subs |-> DirNode(subs[n])])

NoSubfolder == [n \in {} |-> n]
OneSubfolder(name, sub) == [n \in {name} |-> sub]

\* directories of a root that bear the name of a file to move
DirPng == <<"d", "i", "r", ".", "p", "n", "g">>
ShotDir == <<"S", "c", "r", "e", "e", "n", "s", "h", "o", "t", " ", "2", " ", "a", "t", " ", "1", ".", "2", ".", "3", ".", "p", "n", "g">>

DownloadsAtStart ==
  {RootWith(F, subs) :
     F \in SmallSubsets(DownloadsPool, MaxRootFiles),
     subs \in {NoSubfolder} \cup
              {OneSubfolder(Images, sub) : sub \in ImagesAtStart} \cup
              {Merge(OneSubfolder(Images, OldFiles({APng})),
                     OneSubfolder(DirPng, OldFiles({})))}}

DesktopAtStart ==
  {RootWith(F, subs) :
     F \in SmallSubsets(DesktopPool, MaxRootFiles),
     subs \in {NoSubfolder} \cup
              {OneSubfolder(Screenshots, sub) : sub \in ScreenshotsAtStart} \cup
              {Merge(OneSubfolder(Screenshots, OldFiles({Grab0Png})),
                     OneSubfolder(ShotDir, OldFiles({})))}}

\* the starts of the runs in which the user keeps changing the roots: no
\* regular file in the root yet, one file in the subfolder
DownloadsAtStartSmall == {RootWith({}, OneSubfolder(Images, OldFiles({APng})))}

DesktopAtStartSmall ==
  {RootWith({}, OneSubfolder(Screenshots, OldFiles({Grab0Png})))}

\* the names the user may create in a root while the program runs
UserNames(d) ==
  IF d = Downloads THEN {APng, ShotA, Images} ELSE {ShotA, Screenshots}

(***************************************************************************)
(* Actions of the pure functions.                                          *)
(***************************************************************************)
\* the target folders check_filename may be pointed at for a name: a missing
\* folder, or one holding regular files and at most one directory among the
\* names of the name's family
TargetFolders(name) ==
  {NoFolder} \cup
  {[exists  |-> TRUE,
    entries |-> Merge([n \in F |-> FileNode(0)], OldDirs(D))] :
     F \in SUBSET Family(name),
     D \in {X \in SUBSET Family(name) : Cardinality(X) <= 1}}

SystemIdle ==
  /\ tree = [d \in RootDirs |-> <<>>]
  /\ cwdDirs = {}
  /\ clock = 0
  /\ th = [t \in Threads |-> Frame("off", "-")]
  /\ observer = [w \in Watchers |-> "new"]
  /\ queue = [w \in Watchers |-> 0]
  /\ envLeft = 0

ExtensionIdle ==
  /\ filename = <<>>
  /\ file_extension = None
  /\ ext_pc = "off"

CheckFilenameIdle ==
  /\ file_to_check = <<>>
  /\ target_folder = NoFolder
  /\ cf = [file |-> <<>>, i |-> 0, status |-> "off"]
  /\ earlier = <<>>

MakeSubdirectoriesIdle ==
  mk = [pc |-> "off", root |-> <<>>, subdirs |-> [isStr |-> FALSE, val |-> <<>>],
        calls |-> <<>>]

InitExtension ==
  /\ filename \in ExtInputs
  /\ file_extension = None
  /\ ext_pc = "call"
  /\ CheckFilenameIdle
  /\ MakeSubdirectoriesIdle
  /\ SystemIdle

\* get_filename_extension(filename), called and returned
GetFilenameExtension ==
  /\ ext_pc = "call"
  /\ file_extension' = get_filename_extension(filename)
  /\ ext_pc' = "returned"
  /\ UNCHANGED <<filename, file_to_check, target_folder, cf, earlier, mk>>
  /\ UNCHANGED sysVars

NextExtension == GetFilenameExtension

SpecExtension == InitExtension /\ [][NextExtension]_vars

InitCheckFilename ==
  /\ file_to_check \in DesiredNames
  /\ target_folder \in TargetFolders(file_to_check)
  /\ cf = CheckStart(file_to_check)
  /\ earlier = <<>>
  /\ ExtensionIdle
  /\ MakeSubdirectoriesIdle
  /\ SystemIdle

\* a resolver that reserves the name it returns, by creating an empty file
ReserveName(folder, st) ==
  IF st.status = "returned" /\ folder.exists
  THEN [folder EXCEPT !.entries = With(folder.entries, st.file, FileNode(0))]
  ELSE folder

\* what a turn of the loop does to the folder: os.path.isfile only reads it
FolderAfterCheck(folder, st) == folder

\* one turn of check_filename's loop
CheckFilenameTurn ==
  /\ cf.status = "loop"
  /\ cf' = CheckStep(cf, target_folder)
  /\ target_folder' = FolderAfterCheck(target_folder, cf')
  /\ UNCHANGED <<filename, file_extension, ext_pc, file_to_check, earlier, mk>>
  /\ UNCHANGED sysVars

\* the caller calls check_filename again with the same arguments, having
\* moved nothing in between
CheckFilenameAgain ==
  /\ cf.status \notin {"loop", "off"}
  /\ Len(earlier) < MaxCalls - 1
  /\ earlier' = Append(earlier, [file |-> cf.file, status |-> cf.status])
  /\ cf' = CheckStart(file_to_check)
  /\ UNCHANGED <<filename, file_extension, ext_pc, file_to_check, target_folder, mk>>
  /\ UNCHANGED sysVars

NextCheckFilename == CheckFilenameTurn \/ CheckFilenameAgain

SpecCheckFilename == InitCheckFilename /\ [][NextCheckFilename]_vars

\* a call that has started runs on: the loop has no blocking call
SpecCheckFilenameFair == SpecCheckFilename /\ WF_vars(NextCheckFilename)


(***************************************************************************)
(* make_subdirectories on its own.                                         *)
(***************************************************************************)
\* lines 94-95: a single name is taken as the list of that one name
AsList(subdirs) == IF subdirs.isStr THEN <<subdirs.val>> ELSE subdirs.val

\* the names asked for, the folders they are asked for in
SubdirNames == {Images, Docs, Screenshots}

\* the subdirs arguments: a name, or a list of names, one of them possibly
\* listed twice
SubdirsArgs ==
  {[isStr |-> TRUE, val |-> n] : n \in SubdirNames}
  \cup {[isStr |-> FALSE, val |-> q] :
          q \in UNION {Orders(S) : S \in SUBSET SubdirNames}}
  \cup {[isStr |-> FALSE, val |-> <<n, m, n>>] : n, m \in {Images, Docs}}

\* the roots: each name is absent, a regular file, an empty directory or a
\* directory holding a file; a regular file a.png may lie beside them
MakeRoots ==
  {Merge(RootFiles(F),
         Merge(OldFiles(Fs), Merge(OldDirs(Ds), [n \in Dn |-> DirNode(OldFiles({APng}))]))) :
     F \in SUBSET {APng},
     Fs \in SUBSET SubdirNames,
     Ds \in SUBSET SubdirNames,
     Dn \in SUBSET {Images}}

InitMakeSubdirectories ==
  /\ mk \in {[pc |-> "call", root |-> r, subdirs |-> a, calls |-> <<>>] :
               r \in MakeRoots, a \in SubdirsArgs}
  /\ ExtensionIdle
  /\ CheckFilenameIdle
  /\ SystemIdle

\* make_subdirectories(root, subdirs), called and ended; the caller may call
\* it again with the same arguments
MakeSubdirectories ==
  /\ mk.pc = "call"
  /\ LET r == make_subdirectories(mk.root, AsList(mk.subdirs))
         call == [before |-> mk.root, after |-> r.tree, err |-> r.err,
                  ret |-> IF r.err = "" THEN AsList(mk.subdirs) ELSE <<>>]
     IN  mk' = [mk EXCEPT !.root = r.tree,
                          !.calls = Append(@, call),
                          !.pc = IF Len(mk.calls) + 1 < MaxCalls THEN "call"
                                 ELSE "ended"]
  /\ UNCHANGED <<filename, file_extension, ext_pc, file_to_check, target_folder,
                 cf, earlier>>
  /\ UNCHANGED sysVars

NextMakeSubdirectories == MakeSubdirectories

SpecMakeSubdirectories == InitMakeSubdirectories /\ [][NextMakeSubdirectories]_vars
(***************************************************************************)
(* Actions of the program.                                                 *)
(***************************************************************************)
RootOf(t) == Root(th[t].w)

\* a watcher that raises an event after every step of a pass, changed or not
NotifiedAlways(d, changed) ==
  [w \in Watchers |->
     IF Root(w) = d /\ observer[w] = "started" /\ queue[w] < MaxQueue
     THEN queue[w] + 1 ELSE queue[w]]

\* the queues after a change under root d: watchdog puts an event on the
\* queue of every started Observer scheduled on d
Notified(d, changed) ==
  [w \in Watchers |->
     IF changed /\ Root(w) = d /\ observer[w] = "started" /\ queue[w] < MaxQueue
     THEN queue[w] + 1 ELSE queue[w]]

\* the Observer of a watcher whose thread an exception ended
ObserverAfter(t, f) ==
  IF t \in Watchers /\ f.pc = "raised"
  THEN [observer EXCEPT ![t] = "dead"] ELSE observer

AllSubfoldersExist(rt, w) == \A s \in Subfolders(w) : IsRootDir(rt, s)

\* the frame and tree after make_subdirectories(root, subdirs) ran for thread
\* t: the cleanup function is entered unless mkdir raised
AfterMake(t, r) ==
  /\ tree' = [tree EXCEPT ![RootOf(t)] = r.tree]
  /\ th' = [th EXCEPT ![t] =
              IF r.err # "" THEN Raise(@, r.err)
              ELSE [@ EXCEPT !.pc = "list",
                             !.subsOK = AllSubfoldersExist(r.tree, th[t].w)]]
  /\ queue' = Notified(RootOf(t), r.tree # tree[RootOf(t)])

EventHandlerInitStarted ==
  /\ Alive
  /\ th["main"].pc = "ctor"
  /\ \E subdirs \in Orders(Subfolders(th["main"].w)) :
       AfterMake("main", make_subdirectories(tree[RootOf("main")], subdirs))
  /\ observer' = [observer EXCEPT ![th["main"].w] = "started"]
  /\ UNCHANGED <<cwdDirs, clock, envLeft>>
  /\ UNCHANGED fnVars

\* EventHandler.__init__ up to the call of self.cleanup: make_subdirectories
EventHandlerInit ==
  /\ Alive
  /\ th["main"].pc = "ctor"
  /\ \E subdirs \in Orders(Subfolders(th["main"].w)) :
       AfterMake("main", make_subdirectories(tree[RootOf("main")], subdirs))
  /\ UNCHANGED <<cwdDirs, clock, observer, envLeft>>
  /\ UNCHANGED fnVars

\* os.listdir(root) at the head of a cleanup function: any order
ListDir(t) ==
  /\ Alive
  /\ th[t].pc = "list"
  /\ \E l \in Orders(DOMAIN tree[RootOf(t)]) :
       th' = [th EXCEPT ![t] = [@ EXCEPT !.pc = "next", !.listing = l,
                                         !.k = 1,
                                         !.tree0 = tree[RootOf(t)],
                                         !.env0 = envLeft]]
  /\ UNCHANGED <<tree, cwdDirs, clock, observer, queue, envLeft>>
  /\ UNCHANGED fnVars

\* the step PassTurn takes for thread t, with the events it raises
PassStep(t) ==
  LET n == PassTurn(th[t], tree[RootOf(t)], clock)
  IN  /\ th' = [th EXCEPT ![t] = n.f]
      /\ tree' = [tree EXCEPT ![RootOf(t)] = n.rt]
      /\ queue' = Notified(RootOf(t), n.rt # tree[RootOf(t)])
      /\ observer' = ObserverAfter(t, n.f)

\* the head of the for loop: the next listed file is classified
NextFile(t) ==
  /\ Alive
  /\ th[t].pc = "next"
  /\ PassStep(t)
  /\ UNCHANGED <<cwdDirs, clock, envLeft>>
  /\ UNCHANGED fnVars

\* one turn of check_filename's loop inside a pass
CheckTurn(t) ==
  /\ Alive
  /\ th[t].pc = "check"
  /\ PassStep(t)
  /\ UNCHANGED <<cwdDirs, clock, envLeft>>
  /\ UNCHANGED fnVars

\* os.rename(source, destination)
Rename(t) ==
  /\ Alive
  /\ th[t].pc = "rename"
  /\ PassStep(t)
  /\ UNCHANGED <<cwdDirs, clock, envLeft>>
  /\ UNCHANGED fnVars

\* clean_dir after EventHandler(...) returned: observer.schedule and
\* observer.start, then main() goes on to the next watcher or sleeps
StartObserver ==
  /\ Alive
  /\ th["main"].pc = "done"
  /\ observer' = [observer EXCEPT ![th["main"].w] = "started"]
  /\ th' = [th EXCEPT !["main"] =
              IF @.w = "Downloads" THEN Frame("ctor", "Screenshots")
              ELSE Frame("sleep", "-")]
  /\ UNCHANGED <<tree, cwdDirs, clock, queue, envLeft>>
  /\ UNCHANGED fnVars

\* the Observer's thread takes the next event off its queue
Dispatch(w) ==
  /\ Alive
  /\ observer[w] = "started"
  /\ queue[w] > 0
  /\ th[w].pc = "idle"
  /\ queue' = [queue EXCEPT ![w] = @ - 1]
  /\ th' = [th EXCEPT ![w] = Frame("om", w)]
  /\ UNCHANGED <<tree, cwdDirs, clock, observer, envLeft>>
  /\ UNCHANGED fnVars

\* on_modified up to the call of self.cleanup: the subfolders are made again
\* unless each is an entry of the root that is a directory in the cwd
OnModified(w) ==
  /\ Alive
  /\ th[w].pc = "om"
  /\ LET dirs_in_cwd == {d \in DOMAIN tree[Root(w)] : d \in cwdDirs}
     IN  IF ~(\A s \in Subfolders(w) : s \in dirs_in_cwd)
         THEN \E subdirs \in Orders(Subfolders(w)) :
                LET r == make_subdirectories(tree[Root(w)], subdirs)
                IN  /\ AfterMake(w, r)
                    /\ observer' = IF r.err # ""
                                   THEN [observer EXCEPT ![w] = "dead"]
                                   ELSE observer
         ELSE /\ th' = [th EXCEPT ![w] =
                          [@ EXCEPT !.pc = "list",
                                    !.subsOK = AllSubfoldersExist(tree[Root(w)], w)]]
              /\ UNCHANGED <<tree, queue, observer>>
  /\ UNCHANGED <<cwdDirs, clock, envLeft>>
  /\ UNCHANGED fnVars

\* on_modified returns True
OnModifiedReturn(w) ==
  /\ Alive
  /\ th[w].pc = "done"
  /\ th' = [th EXCEPT ![w] = Frame("idle", w)]
  /\ UNCHANGED <<tree, cwdDirs, clock, observer, queue, envLeft>>
  /\ UNCHANGED fnVars

\* a second passes
Tick ==
  /\ Alive
  /\ clock < MaxClock
  /\ clock' = clock + 1
  /\ UNCHANGED <<tree, cwdDirs, th, observer, queue, envLeft>>
  /\ UNCHANGED fnVars

\* the user creates a regular file in a watched root
UserCreatesFile(d, n) ==
  /\ Alive
  /\ envLeft > 0
  /\ n \notin DOMAIN tree[d]
  /\ tree' = [tree EXCEPT ![d] = With(@, n, FileNode(300 + 20 * envLeft + NameNo(n)))]
  /\ queue' = Notified(d, TRUE)
  /\ envLeft' = envLeft - 1
  /\ UNCHANGED <<cwdDirs, clock, th, observer>>
  /\ UNCHANGED fnVars

\* the user deletes a subfolder of a watched root, with what it holds
UserDeletesSubfolder(d, n) ==
  /\ Alive
  /\ envLeft > 0
  /\ IsRootDir(tree[d], n)
  /\ tree' = [tree EXCEPT ![d] = Without(@, n)]
  /\ queue' = Notified(d, TRUE)
  /\ envLeft' = envLeft - 1
  /\ UNCHANGED <<cwdDirs, clock, th, observer>>
  /\ UNCHANGED fnVars

\* main() from its first clean_dir call on.  Either one root starts with any
\* of its contents, the other empty, and the user stays away; or both roots
\* start without files of their own and the user changes them while the
\* program runs.
Init ==
  /\ \/ /\ tree \in [RootDirs -> DownloadsAtStart \cup DesktopAtStart]
        /\ tree[Downloads] \in DownloadsAtStart
        /\ tree[Desktop] \in DesktopAtStart
        /\ \/ tree[Downloads] = RootFiles({}) /\ clock = 0
           \/ tree[Desktop] = RootFiles({}) /\ clock = MaxClock
        /\ envLeft = 0
        /\ cwdDirs = {}
     \/ /\ tree \in [RootDirs -> DownloadsAtStartSmall \cup DesktopAtStartSmall]
        /\ tree[Downloads] \in DownloadsAtStartSmall
        /\ tree[Desktop] \in DesktopAtStartSmall
        /\ envLeft = MaxEnv
        /\ cwdDirs \in SUBSET {Screenshots}
        /\ clock = 0
  /\ th = [t \in Threads |->
             IF t = "main" THEN Frame("ctor", "Downloads") ELSE Frame("idle", t)]
  /\ observer = [w \in Watchers |-> "new"]
  /\ queue = [w \in Watchers |-> 0]
  /\ ExtensionIdle
  /\ CheckFilenameIdle
  /\ MakeSubdirectoriesIdle

Next ==
  \/ EventHandlerInit
  \/ StartObserver
  \/ Tick
  \/ \E t \in Threads : ListDir(t) \/ NextFile(t) \/ CheckTurn(t) \/ Rename(t)
  \/ \E w \in Watchers : Dispatch(w) \/ OnModified(w) \/ OnModifiedReturn(w)
  \/ \E d \in RootDirs : \E n \in UserNames(d) : UserCreatesFile(d, n)
  \/ \E d \in RootDirs : \E w \in Watchers : \E n \in Subfolders(w) :
       UserDeletesSubfolder(d, n)

Spec == Init /\ [][Next]_vars

\* the steps of the program's own threads
ProgramNext ==
  \/ EventHandlerInit
  \/ StartObserver
  \/ \E t \in Threads : ListDir(t) \/ NextFile(t) \/ CheckTurn(t) \/ Rename(t)
  \/ \E w \in Watchers : Dispatch(w) \/ OnModified(w) \/ OnModifiedReturn(w)

\* A thread at the head of the for loop or inside check_filename always has
\* a step: PassTurn is defined for every frame there and changes the frame.
\* This action is enabled exactly then; it is no step of Next and never
\* occurs, and stands in WF for the enabling condition of NextFile and
\* CheckTurn.
PassStepEnabled(t) ==
  /\ Alive
  /\ th[t].pc \in {"next", "check"}
  /\ th' = [th EXCEPT ![t] = [@ EXCEPT !.pc = "on"]]
  /\ UNCHANGED <<tree, cwdDirs, clock, observer, queue, envLeft>>
  /\ UNCHANGED fnVars

\* The threads run on: none of their steps blocks, and an Observer's thread
\* takes an event that waits on its queue.  The user has MaxEnv changes to
\* make and both roots start with one file in their subfolder.
InitFair ==
  /\ tree = [d \in RootDirs |->
               IF d = Downloads
               THEN RootWith({}, OneSubfolder(Images, OldFiles({APng})))
               ELSE RootWith({}, OneSubfolder(Screenshots, OldFiles({Grab0Png})))]
  /\ envLeft = MaxEnv
  /\ cwdDirs = {}
  /\ clock = 0
  /\ th = [t \in Threads |->
             IF t = "main" THEN Frame("ctor", "Downloads") ELSE Frame("idle", t)]
  /\ observer = [w \in Watchers |-> "new"]
  /\ queue = [w \in Watchers |-> 0]
  /\ ExtensionIdle
  /\ CheckFilenameIdle
  /\ MakeSubdirectoriesIdle

SpecFair ==
  /\ InitFair
  /\ [][Next]_vars
  /\ WF_vars((\E t \in Threads : PassStepEnabled(t)) \/ ProgramNext)

(***************************************************************************)
(* Properties of get_filename_extension (SpecExtension).                   *)
(***************************************************************************)
LastDot(s) == Max(DotPositions(s))

\* the dots of s that a \w character follows
ExtensionDots(s) ==
  {k \in DotPositions(s) : k < Len(s) /\ s[k + 1] \in WordChars}

\* s from its last dot on is a dot and then one or more \w characters
WordTail(s) ==
  /\ DotPositions(s) # {}
  /\ LastDot(s) < Len(s)
  /\ \A k \in (LastDot(s) + 1)..Len(s) : s[k] \in WordChars

\* C5 as stated: for every filename with at least one dot the result is the
\* substring from the last dot to the end, and None for a filename with no dot.
C5_LastDotToEnd ==
  ext_pc = "returned" =>
    IF DotPositions(filename) # {}
    THEN file_extension = SubSeq(filename, LastDot(filename), Len(filename))
    ELSE file_extension = None

\* C5 amended: the result is the substring from the last dot to the end when
\* only \w characters, and at least one, follow the last dot; it is None for a
\* filename with no dot; in general it is the last dot that a \w character
\* follows together with the run of \w characters after it, and None when no
\* dot is followed by a \w character.
C5_LastExtensionToken ==
  ext_pc = "returned" =>
    /\ DotPositions(filename) = {} => file_extension = None
    /\ WordTail(filename) =>
         file_extension = SubSeq(filename, LastDot(filename), Len(filename))
    /\ IF ExtensionDots(filename) = {} THEN file_extension = None
       ELSE LET d == Max(ExtensionDots(filename))
                e == Max({j \in (d + 1)..Len(filename) :
                            \A k \in (d + 1)..j : filename[k] \in WordChars})
            IN  file_extension = SubSeq(filename, d, e)

\* archive.tar.gz gave .gz
C5_Witness ==
  /\ ext_pc = "returned"
  /\ filename = ArchiveTarGz
  /\ file_extension = <<".", "g", "z">>

(***************************************************************************)
(* Properties of check_filename (SpecCheckFilename).                       *)
(***************************************************************************)
\* the folder holds a regular file of that name
HoldsFile(folder, name) ==
  /\ folder.exists
  /\ name \in DOMAIN folder.entries
  /\ folder.entries[name].kind = "file"

Returned == cf.status = "returned"
Ended == cf.status # "loop"

\* the name carrying suffix _n before its extension: the stem ends at the
\* first dot and loses one trailing _<digits> group
SuffixedName(name, n) ==
  LET parts == SplitFirstDot(name)
  IN  IF Len(parts) < 2 THEN CanonicalBase(name) \o <<"_">> \o IntToStr(n)
      ELSE Suffixed(CanonicalBase(parts[1]), n, parts[2])

\* C2 as stated: when the folder already holds the desired name, the result is
\* the name with the smallest positive suffix _k that is free in the folder,
\* all of _1 .. _(k-1) being taken.
C2_SmallestFreeSuffix ==
  (Ended /\ HoldsFile(target_folder, file_to_check)) =>
    /\ Returned
    /\ \E k \in 1..(Cardinality(DOMAIN target_folder.entries) + 1) :
         /\ cf.file = SuffixedName(file_to_check, k)
         /\ ~HoldsFile(target_folder, cf.file)
         /\ \A j \in 1..(k - 1) :
              HoldsFile(target_folder, SuffixedName(file_to_check, j))

\* C3: when the folder holds no regular file of the desired name, or does not
\* exist, check_filename returns the desired name unchanged.
C3_FreeNameUnchanged ==
  (Ended /\ ~HoldsFile(target_folder, file_to_check)) =>
    /\ Returned
    /\ cf.file = file_to_check
    /\ cf.i = 0

\* a free name came back from a folder that holds other files and a directory
\* of the desired name
C3_Witness ==
  /\ Returned
  /\ cf.file = file_to_check
  /\ target_folder.exists
  /\ file_to_check \in DOMAIN target_folder.entries
  /\ target_folder.entries[file_to_check].kind = "dir"
  /\ \E n \in DOMAIN target_folder.entries :
       target_folder.entries[n].kind = "file"

ReportN(n) == Suffixed(<<"r", "e", "p", "o", "r", "t">>, n, <<"t", "x", "t">>)

Report2Case ==
  /\ Ended
  /\ file_to_check = Report2Txt
  /\ HoldsFile(target_folder, ReportN(2))
  /\ ~HoldsFile(target_folder, ReportN(3))

\* C4 as stated: report_2.txt wanted, report_2.txt there and report_3.txt not:
\* the result is report_3.txt, whatever else the folder holds.
C4_Report3 == Report2Case => (Returned /\ cf.file = ReportN(3))

\* C4 amended: the result is report_k.txt for the smallest k >= 1 whose name
\* is free in the folder: report_1.txt when that is free, report_3.txt only
\* when report_1.txt is taken as well; never report_2_1.txt.
C4_SmallestFreeReport ==
  Report2Case =>
    /\ Returned
    /\ cf.file = IF HoldsFile(target_folder, ReportN(1)) THEN ReportN(3)
                 ELSE ReportN(1)
    /\ cf.file # <<"r", "e", "p", "o", "r", "t", "_", "2", "_", "1", ".", "t", "x", "t">>

\* report_1.txt and report_2.txt were there and report_3.txt came back
C4_Witness ==
  /\ Report2Case
  /\ HoldsFile(target_folder, ReportN(1))
  /\ cf.file = ReportN(3)

(***************************************************************************)
(* Properties of the passes and of the handlers (Spec).                    *)
(***************************************************************************)
\* the threads inside a cleanup function for watcher w
InPass(w) == {t \in Threads : th[t].w = w /\ th[t].pc \in PassPcs}

\* a pass that has ended, by returning or by an exception raised inside it
PassEnded(t) ==
  /\ th[t].pc \in {"done", "raised"}
  /\ th[t].listing # <<>>

\* nothing but the pass itself changed the roots since it listed its root
Undisturbed(t) == th[t].env0 = envLeft

\* C1: no overwrite, no loss.  Every step of a thread leaves each file that is
\* inside a subfolder where it is, under its name, and leaves the set of
\* files under each root (hence their number) as it was; and an os.rename
\* that moves a file targets a path that held no file just before.
C1_NoOverwriteNoLoss ==
  [][th' # th =>
       /\ \A d \in RootDirs :
            /\ FilesInSubfolders(tree[d]) \subseteq FilesInSubfolders(tree'[d])
            /\ FileIds(tree'[d]) = FileIds(tree[d])
            /\ Cardinality(FilesUnder(tree'[d])) = Cardinality(FilesUnder(tree[d]))
       /\ \A t \in Threads :
            (th[t].pc = "rename" /\ th'[t].pc = "next") =>
              ~\E e \in FilesUnder(tree[RootOf(t)]) :
                  e[1] = th[t].dest /\ e[2] = th[t].chk.file]_vars

\* a.png of the root went to Images as a_1.png, beside the a.png already there
C1_Witness ==
  /\ IsRootDir(tree[Downloads], Images)
  /\ <<Images, APng, 200 + NameNo(APng)>> \in FilesUnder(tree[Downloads])
  /\ <<Images, A1Png, 100 + NameNo(APng)>> \in FilesUnder(tree[Downloads])

\* C6 as stated: after a sort_by_filetype pass over a root whose subfolders
\* exist, every regular file of the root whose extension maps to a category
\* other than Other is in that category's subfolder, and every other regular
\* file is still in the root under its name.
C6_FiletypePostcondition ==
  \A t \in Threads :
    (PassEnded(t) /\ th[t].w = "Downloads" /\ th[t].subsOK /\ Undisturbed(t)) =>
      \A n \in {x \in DOMAIN th[t].tree0 : th[t].tree0[x].kind = "file"} :
        LET e == get_filename_extension(n)
            id == th[t].tree0[n].id
        IN  IF e \in DOMAIN extensions /\ extensions[e] # Other
            THEN \E f \in FilesUnder(tree[Downloads]) :
                   f[1] = extensions[e] /\ f[3] = id
            ELSE <<(<<>>), n, id>> \in FilesUnder(tree[Downloads])

MoveErrors == {"FileNotFoundError", "NotADirectoryError", "IsADirectoryError"}

\* C7 as stated: a failed move is confined to its file: the file stays where
\* it was and the pass goes on with the rest of its listing.
C7_MoveFailureConfined ==
  \A t \in Threads :
    th[t].exc \in MoveErrors =>
      /\ th[t].pc \in PassPcs \cup {"done"}
      /\ IsRootFile(tree[RootOf(t)], th[t].src)

\* C8 as stated: whenever a cleanup function starts, at initialization or in
\* on_modified, every required subfolder is a directory under the root.
C8_SubfoldersExistAtCleanup ==
  \A t \in Threads : th[t].pc \in PassPcs \cup {"done"} => th[t].subsOK

\* C9: for one watcher at most one pass is in flight at any time.
C9_OnePassPerRoot ==
  \A w \in Watchers : Cardinality(InPass(w)) <= 1

\* the Observer's thread is inside a pass that has moved a file, and a
\* further notification is already waiting
C9_Witness ==
  \E w \in Watchers :
    /\ th[w].pc \in PassPcs
    /\ th[w].listing # <<>>
    /\ tree[Root(w)] # th[w].tree0
    /\ Undisturbed(w)
    /\ queue[w] > 0

\* the frame of thread t as it was right after it listed its root
AsListed(t) ==
  [th[t] EXCEPT !.pc = "next", !.k = 1, !.src = <<>>, !.dest = <<>>,
                !.chk = CheckStart(<<>>), !.exc = "", !.stamps = <<>>]

\* C10: the two watchers' passes do not interfere.  Two threads about to
\* rename never hold the same destination path; a destination chosen by
\* check_filename is still free when its rename runs; and a pass that ended
\* left its root exactly as the same pass run on its own would, from the same
\* listing and clock readings, whatever the other watcher's thread did
\* meanwhile.
C10_WatchersIndependent ==
  /\ \A t, u \in Threads :
       (t # u /\ th[t].pc = "rename" /\ th[u].pc = "rename") =>
         <<RootOf(t), th[t].dest, th[t].chk.file>>
           # <<RootOf(u), th[u].dest, th[u].chk.file>>
  /\ \A t \in Threads :
       th[t].pc = "rename" =>
         ~\E e \in FilesUnder(tree[RootOf(t)]) :
             e[1] = th[t].dest /\ e[2] = th[t].chk.file
  /\ \A t \in Threads :
       (PassEnded(t) /\ Undisturbed(t)) =>
         LET alone == IsolatedPass(AsListed(t), th[t].tree0, th[t].stamps)
         IN  /\ tree[RootOf(t)] = alone.rt
             /\ th[t].pc = alone.f.pc

\* the Observer thread of Downloads and a thread serving the Desktop are both
\* about to rename
C10_Witness ==
  /\ th["Downloads"].pc = "rename"
  /\ \E t \in Threads \ {"Downloads"} :
       th[t].w = "Screenshots" /\ th[t].pc = "rename"


\* how the current call of check_filename ended
Outcome == [file |-> cf.file, status |-> cf.status]

\* C11: check_filename reserves nothing and changes nothing.  No step of a
\* call changes the target folder, and a call made right after another with
\* the same arguments, nothing having been moved, ends as the earlier one did:
\* with the same name returned (or the same exception raised).
C11_NoReservation ==
  [][/\ target_folder' = target_folder
     /\ (cf'.status # "loop" =>
           \A k \in 1..Len(earlier') :
              earlier'[k] = [file |-> cf'.file, status |-> cf'.status])]_vars

\* a second call returned a suffixed name, the one the first call returned
C11_Witness ==
  /\ Len(earlier) = 1
  /\ Returned
  /\ cf.i > 0
  /\ earlier[1] = Outcome
  /\ HoldsFile(target_folder, file_to_check)

\* C12 as stated: the loop is bounded by a maximum suffix count, here
\* MaxSuffix: the counter never passes it, the resolver stopping instead.
C12_SuffixCountBounded == cf.i <= MaxSuffix

\* the regular files of the target folder
FilesIn(folder) ==
  IF folder.exists
  THEN {n \in DOMAIN folder.entries : folder.entries[n].kind = "file"}
  ELSE {}

\* the existence checks the current call has made
Checks == IF Returned THEN cf.i + 1 ELSE cf.i

\* the candidate of turn i > 0 is the trimmed stem with suffix _i
SuffixedCandidate ==
  (cf.status \in {"loop", "returned"} /\ cf.i > 0) =>
    LET parts == SplitFirstDot(file_to_check)
    IN  /\ Len(parts) = 2
        /\ FhTrimmed(parts[1]) # None
        /\ cf.file = Suffixed(FhTrimmed(parts[1]), cf.i, parts[2])

\* C13 as stated: every call ends, after at most (files of the folder) + 1
\* existence checks.
C13_FilesPlusOneChecks ==
  [](Checks <= Cardinality(FilesIn(target_folder)) + 1) /\ <>[]Ended

\* C13 amended: every call ends, by returning or by raising, after at most
\* (files of the folder) + 2 existence checks: the suffixed candidates are
\* pairwise distinct (turn i tries the trimmed stem with _i), but the desired
\* name itself may be one of them and is then checked twice.
C13_FilesPlusTwoChecks ==
  /\ [](Checks <= Cardinality(FilesIn(target_folder)) + 2)
  /\ []SuffixedCandidate
  /\ <>[]Ended

\* report_2.txt was wanted, report_1.txt and report_2.txt are the folder's
\* files, and report_3.txt came back after four checks
C13_Witness ==
  /\ Returned
  /\ file_to_check = Report2Txt
  /\ FilesIn(target_folder) = {ReportN(1), ReportN(2)}
  /\ cf.file = ReportN(3)
  /\ Checks = 4

(***************************************************************************)
(* Properties of sort_screenshots (Spec).                                  *)
(***************************************************************************)
\* the whole name follows the screenshot convention: the prefix, a date/time
\* stamp, duplicate markers if any, and the extension .mov or .png, with
\* nothing before and nothing after
FollowsConvention(s) ==
  LET p1 == ReadLit(s, {1}, <<"S", "c", "r", "e", "e", "n", "s", "h", "o", "t">>)
            \cup ReadLit(s, ReadClass(s, ReadLit(s, {1}, <<"S", "c", "r", "e", "e", "n">>), SpaceChars),
                         <<"R", "e", "c", "o", "r", "d", "i", "n", "g">>)
      p2 == ReadClass(s, p1, SpaceChars)
      p3 == ReadDateGroups(s, ReadDateGroup(s, p2))
      p4 == ReadClass(s, ReadLit(s, ReadClass(s, p3, SpaceChars), <<"a", "t">>),
                      SpaceChars)
      p5 == ReadMarkers(s, ReadTime(s, p4))
      p6 == ReadLit(s, p5, <<".", "m", "o", "v">>) \cup ReadLit(s, p5, <<".", "p", "n", "g">>)
  IN  (Len(s) + 1) \in p6

\* Screengrab_<a clock reading>_captured<ext>, or that name with a suffix
IsScreengrabName(n, ext) ==
  \E c \in 0..MaxClock :
    LET stem == <<"S", "c", "r", "e", "e", "n", "g", "r", "a", "b", "_">> \o strftime(c) \o <<"_", "c", "a", "p", "t", "u", "r", "e", "d">>
    IN  \/ n = stem \o ext
        \/ \E k \in 1..(MaxSuffix + 1) : n = stem \o <<"_">> \o IntToStr(k) \o ext

\* C14 as stated: after a sort_screenshots pass that returned, over a root
\* whose Screenshots subfolder existed, a regular file of the root has been
\* moved if and only if its name follows the screenshot convention: it is then
\* in Screenshots as Screengrab_<timestamp>_captured<extension>, with
\* extension .mov or .png, and gone from the root; every other file is in the
\* root under its name.
C14_MovedIffScreenshot ==
  \A t \in Threads :
    (th[t].pc = "done" /\ th[t].w = "Screenshots" /\ th[t].listing # <<>>
       /\ th[t].subsOK /\ Undisturbed(t)) =>
      \A n \in {x \in DOMAIN th[t].tree0 : th[t].tree0[x].kind = "file"} :
        LET id == th[t].tree0[n].id
        IN  IF FollowsConvention(n)
            THEN /\ \E f \in FilesUnder(tree[Desktop]) :
                      /\ f[1] = Screenshots
                      /\ f[3] = id
                      /\ \E ext \in {<<".", "m", "o", "v">>, <<".", "p", "n", "g">>} :
                           IsScreengrabName(f[2], ext)
                 /\ ~\E f \in FilesUnder(tree[Desktop]) :
                       f[1] = <<>> /\ f[3] = id
            ELSE <<(<<>>), n, id>> \in FilesUnder(tree[Desktop])

(***************************************************************************)
(* Properties of make_subdirectories (SpecMakeSubdirectories).             *)
(***************************************************************************)
\* the names of the list that are no directory of the root
Missing(rt, names) == {n \in names : ~IsRootDir(rt, n)}

ListedNames == {AsList(mk.subdirs)[k] : k \in 1..Len(AsList(mk.subdirs))}

\* the call left everything that was there as it was
NothingDeleted(c) ==
  \A n \in DOMAIN c.before : n \in DOMAIN c.after /\ c.after[n] = c.before[n]

\* C15 as stated: every call creates exactly the missing directories, raises
\* nothing, deletes nothing and returns the list of names; a second call right
\* after changes nothing and returns the same list.
C15_CreatesEveryMissing ==
  \A k \in 1..Len(mk.calls) :
    LET c == mk.calls[k]
    IN  /\ c.err = ""
        /\ NothingDeleted(c)
        /\ DOMAIN c.after = DOMAIN c.before \cup Missing(c.before, ListedNames)
        /\ \A n \in ListedNames : IsRootDir(c.after, n)
        /\ c.ret = AsList(mk.subdirs)
        /\ k > 1 => (c.after = c.before /\ c.ret = mk.calls[1].ret)

\* the listed names that a non-directory of the root already bears
Blocked(rt) == {n \in ListedNames : n \in DOMAIN rt /\ ~IsRootDir(rt, n)}

\* C15 amended: a call never deletes or changes what is there and never raises
\* for a name that is a directory already.  When no listed name is borne by a
\* regular file it creates exactly the missing directories, empty, and returns
\* the list of names (a single name as a list of one).  When one is, os.mkdir
\* raises FileExistsError for the first such name of the list, the missing
\* directories listed before it having been created.  A second call right
\* after the first changes nothing and ends as the first did.
C15_IdempotentUnlessBlocked ==
  \A k \in 1..Len(mk.calls) :
    LET c == mk.calls[k]
        names == AsList(mk.subdirs)
        stop == IF Blocked(c.before) = {} THEN Len(names) + 1
                ELSE Min({j \in 1..Len(names) : names[j] \in Blocked(c.before)})
        done == {names[j] : j \in 1..(stop - 1)}
    IN  /\ NothingDeleted(c)
        /\ c.err = IF Blocked(c.before) = {} THEN "" ELSE "FileExistsError"
        /\ DOMAIN c.after = DOMAIN c.before \cup Missing(c.before, done)
        /\ \A n \in DOMAIN c.after \ DOMAIN c.before : c.after[n] = DirNode(<<>>)
        /\ c.err = "" => c.ret = names
        /\ k > 1 => /\ c.after = c.before
                    /\ c.err = mk.calls[1].err
                    /\ c.ret = mk.calls[1].ret

\* two calls were made: the first created a directory beside a directory that
\* was there, holding a file, and beside a regular file; the second changed
\* nothing
C15_Witness ==
  /\ Len(mk.calls) = 2
  /\ mk.calls[1].err = ""
  /\ mk.calls[1].after # mk.calls[1].before
  /\ mk.calls[2].after = mk.calls[2].before
  /\ IsRootFile(mk.calls[1].before, APng)
  /\ \E n \in ListedNames :
       IsRootDir(mk.calls[1].before, n) /\ mk.calls[1].before[n].entries # <<>>

(***************************************************************************)
(* Further properties of check_filename (SpecCheckFilename).               *)
(***************************************************************************)
\* C16 as stated: the base of a suffixed result is the stem with only one
\* trailing _<digits> group removed, every other character kept: the result
\* with suffix _i is that base, _i, and the extension.
C16_OnlyTrailingGroupStripped ==
  (Returned /\ cf.i > 0) => cf.file = SuffixedName(file_to_check, cf.i)

\* the names sort_by_filetype hands to check_filename: those whose extension
\* the table maps to a category other than Other
HandedOver(name) ==
  LET e == get_filename_extension(name)
  IN  e \in DOMAIN extensions /\ extensions[e] # Other

\* C18 as stated: for every name sort_by_filetype can hand over, and every
\* target folder, check_filename returns a name and raises nothing.
C18_NeverRaises ==
  (Ended /\ HandedOver(file_to_check)) => Returned

(***************************************************************************)
(* The frame of a relocation pass (Spec).                                  *)
(***************************************************************************)
\* the names of the regular files, and of the directories, of a root
RootFileNames(rt) == {n \in DOMAIN rt : rt[n].kind = "file"}
RootDirNames(rt) == {n \in DOMAIN rt : rt[n].kind = "dir"}

\* C17: a pass acts only on regular files that are direct children of the
\* root as listed at its start.  In every step of a thread: a file that
\* leaves a root is the regular file the thread's loop stands at, listed at
\* the start of the pass and a regular file then; the loop index never goes
\* back, each listed name standing at one index only; every directory of a
\* root stays where it is; and every file inside a subfolder stays there under
\* its name, so that the files of each subfolder only grow in number.
C17_OnlyListedRootFiles ==
  [][th' # th =>
       /\ \A d \in RootDirs :
            /\ RootDirNames(tree[d]) \subseteq RootDirNames(tree'[d])
            /\ FilesInSubfolders(tree[d]) \subseteq FilesInSubfolders(tree'[d])
            /\ \A n \in RootFileNames(tree[d]) \ RootFileNames(tree'[d]) :
                 \E t \in Threads :
                   /\ RootOf(t) = d
                   /\ th[t].pc = "rename"
                   /\ th[t].src = n
                   /\ th[t].k \in 1..Len(th[t].listing)
                   /\ th[t].listing[th[t].k] = n
                   /\ IsRootFile(th[t].tree0, n)
                   /\ th'[t].k = th[t].k + 1
       /\ \A t \in Threads :
            /\ (th'[t].listing = th[t].listing /\ th[t].pc \in PassPcs)
                 => th'[t].k >= th[t].k
            /\ \A a, b \in 1..Len(th'[t].listing) :
                 a # b => th'[t].listing[a] # th'[t].listing[b]]_vars

\* a pass over Downloads returned: it moved a.png into Images, where the
\* a.png of an earlier day still lies, and left the directory dir.png in the
\* root
C17_Witness ==
  \E t \in Threads :
    /\ th[t].pc = "done"
    /\ th[t].w = "Downloads"
    /\ IsRootDir(tree[Downloads], DirPng)
    /\ <<Images, APng, 200 + NameNo(APng)>> \in FilesUnder(tree[Downloads])
    /\ <<Images, A1Png, 100 + NameNo(APng)>> \in FilesUnder(tree[Downloads])

(***************************************************************************)
(* Quiescence (SpecFair).                                                  *)
(***************************************************************************)
\* no regular file of the root is one the watcher's cleanup function moves
NothingToMove(w, rt) ==
  \A n \in RootFileNames(rt) : Classify(w, rt, n, clock) = NoTarget

\* nothing runs and nothing waits: the process is gone, or main() sleeps and
\* every Observer is dead or idle with an empty queue
Quiescent ==
  \/ ~Alive
  \/ /\ th["main"].pc = "sleep"
     /\ \A w \in Watchers :
          \/ observer[w] = "dead"
          \/ /\ observer[w] = "started"
             /\ queue[w] = 0
             /\ th[w].pc = "idle"

\* C19: quiescence.  A pass that returned, the user having changed nothing
\* meanwhile, leaves nothing to move in its root; a pass over a root with
\* nothing to move moves nothing, hence raises no notification; and, the
\* passes' own moves raising notifications, the program still comes to rest
\* for good once the user's changes have ended.
C19_Quiescence ==
  /\ [](\A t \in Threads :
          (th[t].pc = "done" /\ th[t].listing # <<>> /\ Undisturbed(t)) =>
            NothingToMove(th[t].w, tree[RootOf(t)]))
  /\ [](\A t \in Threads :
          (PassEnded(t) /\ Undisturbed(t)
             /\ NothingToMove(th[t].w, th[t].tree0)) =>
            (th[t].pc = "done" /\ tree[RootOf(t)] = th[t].tree0))
  /\ <>[]Quiescent

\* the Observer's thread of Downloads returned from a pass that moved
\* nothing; the notification it served was raised by the move of a file the
\* user had created, which now lies in Images
C19_Witness ==
  /\ th["Downloads"].pc = "done"
  /\ th["Downloads"].listing # <<>>
  /\ tree[Downloads] = th["Downloads"].tree0
  /\ envLeft = 0
  /\ queue["Downloads"] = 0
  /\ \E f \in FilesUnder(tree[Downloads]) : f[1] = Images /\ f[3] >= 300
====
